---- MODULE Spec2Model ----
(***************************************************************************)
(* The interview session of src/main.py: the Streamlit session state, the  *)
(* three helpers (generate_questions, transcribe_audio,                    *)
(* analyze_with_gemini) and the widget handlers of the setup page and of   *)
(* the question/answer loop.                                               *)
(*                                                                         *)
(* Python str values that the handlers test or pass on are sequences of    *)
(* tokens (<<>> is the empty string, " " a whitespace character); None is  *)
(* a one-token sequence whose token occurs in no string.  A JSON value is  *)
(* a record [kind, items]: an array (a Python list) or an object (a dict). *)
(***************************************************************************)
EXTENDS Integers, Sequences, FiniteSets, TLC

\* ---------------------------------------------------------------- bounds
\* Largest number of elements in a JSON array/object the collaborator returns.
MaxQuestions == 4
\* Largest number of characters of a typed answer.
MaxAnswerLen == 2
\* Largest number of answers handed to the evaluator in one session.
MaxTurns == 4
\* Largest number of temporary files left on disk that is followed.
MaxTempFiles == 2

\* ---------------------------------------------------------------- values
None == <<"<None>">>

\* Python truthiness of a value that is a str or None.
Truthy(v) == v # None /\ v # <<>>

Whitespace == {" "}

RECURSIVE lstrip(_)
lstrip(s) ==
    IF s # <<>> /\ Head(s) \in Whitespace THEN lstrip(Tail(s)) ELSE s

RECURSIVE rstrip(_)
rstrip(s) ==
    IF s # <<>> /\ s[Len(s)] \in Whitespace
    THEN rstrip(SubSeq(s, 1, Len(s) - 1))
    ELSE s

\* str.strip() as used on the typed answer.
strip(s) == rstrip(lstrip(s))

SeqsUpTo(S, n) == UNION {[1..k -> S] : k \in 0..n}

\* What the text area can hold.
Answers == SeqsUpTo({" ", "a"}, MaxAnswerLen)

TextMode == "Text"
VoiceMode == "Voice (Real-time)"
Modes == {TextMode, VoiceMode}

\* `"Voice" in st.session_state.mode`
IsVoice(m) == m = VoiceMode

Names == {"", "Alex"}
Roles == {"Software Engineer", "Data Analyst", "Product Manager"}
Difficulties == {"Beginner", "Intermediate", "Advanced"}

\* Elements of a JSON array: a dict with a 'text' key, or anything else.
Rec(i, t) == [kind |-> "record", id |-> i, text |-> t]
Other == [kind |-> "other", id |-> "", text |-> ""]
Elements == {Rec("q", "Question?"), Other}

Array(items) == [kind |-> "array", items |-> items]
Object(items) == [kind |-> "object", items |-> items]

EmptyList == Array(<<>>)
Fallback == Array(<<Rec("q1", "Tell me about yourself.")>>)

\* len(v) for a list or a dict.
PyLen(v) == Len(v.items)

\* ------------------------------------------------- collaborator outcomes
\* model.generate_content(prompt) / response.text for the question prompt:
\* it raises, or it yields a text, possibly inside a ```json fence, whose
\* body is not JSON or is JSON denoting a value.
JsonValues ==
    {Array(s) : s \in SeqsUpTo(Elements, MaxQuestions)}
        \cup {Object([i \in 1..n |-> Other]) : n \in 0..1}
NoResponse == [kind |-> "none", fence |-> FALSE, valid |-> FALSE, value |-> EmptyList]
GenResponses ==
    {[kind |-> "raise", fence |-> FALSE, valid |-> FALSE, value |-> EmptyList]}
        \cup {[kind |-> "text", fence |-> f, valid |-> FALSE, value |-> EmptyList] :
                f \in BOOLEAN}
        \cup {[kind |-> "text", fence |-> f, valid |-> TRUE, value |-> v] :
                f \in BOOLEAN, v \in JsonValues}

\* model.generate_content(prompt) / response.text for the feedback prompt.
EvalOutcomes ==
    {[kind |-> "text", text |-> <<"Good answer.">>],
     [kind |-> "text", text |-> <<>>],
     [kind |-> "raise", text |-> <<"quota exceeded">>]}

\* ffmpeg: exit status 0 or not.  Recognition: text, UnknownValueError, or
\* any other exception.
RecogOutcomes ==
    {[kind |-> "text", text |-> <<"I have experience">>],
     [kind |-> "unknown", text |-> <<>>],
     [kind |-> "error", text |-> <<"recognition request failed">>]}

\* "Generate 4 professional interview questions"
NumQuestions == 4

\* ----------------------------------------------------------------- state
VARIABLES
    GEMINI_READY,   \* Stage 3: the API key was found and configured
    questions,      \* st.session_state.questions
    current_q,      \* st.session_state.current_q
    feedback,       \* st.session_state.feedback
    setup_done,     \* st.session_state.setup_done
    mode,           \* st.session_state.mode
    name,           \* st.session_state.name
    rerun,          \* st.rerun() was called and the audio widget still holds audio
    tmp_files,      \* temporary files created for transcriptions and not deleted
    turns,          \* answers a command handed to the evaluator since the start
    advances,       \* Next Question clicks handled since the start
    last            \* the last command and the external calls it made

vars == <<GEMINI_READY, questions, current_q, feedback, setup_done, mode, name,
          rerun, tmp_files, turns, advances, last>>

session == <<questions, current_q, feedback, setup_done, mode, name>>

\* What `last` records: the command, whether a handler ran for it, its
\* argument, whether generate_questions and analyze_with_gemini were called,
\* with what, and what came back; for the evaluator whether the collaborator
\* answered or raised; for a transcription how ffmpeg ended, the file the
\* recognition read, what the recognizer heard and what transcribe_audio
\* returned.
MkLast(cmd, arg, gen, resp, ev, ans, res, rk) ==
    [cmd |-> cmd, handled |-> TRUE, arg |-> arg, genCalled |-> gen,
     resp |-> resp, evalCalled |-> ev, evalAnswer |-> ans, evalResult |-> res,
     recog |-> rk, evalOutcome |-> "none", ffmpeg |-> "none",
     process_path |-> "none", transcript |-> None, heard |-> None]

\* A command that made no external call.
NoCalls(cmd, arg) ==
    MkLast(cmd, arg, FALSE, NoResponse, FALSE, None, None, "none")

\* ------------------------------------------------------------ helpers
\* response.text.strip().lstrip("```json").rstrip("```"): the fence, when
\* there is one, is stripped and the body is left.
clean_json(resp) == [resp EXCEPT !.fence = FALSE]

\* json.loads: any JSON value is returned as it is; anything else raises.
json_loads_raises(text) == ~text.valid
json_loads(text) == text.value

generate_questions(role, difficulty, resp) ==
    IF ~GEMINI_READY
    THEN Fallback
    ELSE IF resp.kind = "raise" \/ json_loads_raises(clean_json(resp))
         THEN Fallback
         ELSE json_loads(clean_json(resp))

\* Mutant: UnknownValueError is caught by the general handler.
transcribe_audio_UnknownIsError(ffmpegOk, recog) ==
    LET process_path == IF ffmpegOk THEN "tmp_wav" ELSE "audio_file_path"
    IN  [process_path |-> process_path,
         left |-> IF ffmpegOk /\ recog.kind # "text" THEN 1 ELSE 0,
         ret |-> CASE recog.kind = "text" -> recog.text
                   [] OTHER -> <<"Error: ">> \o recog.text]

\* Mutant: a failed conversion ends the transcription with an Error.
transcribe_audio_FfmpegFatal(ffmpegOk, recog) ==
    IF ~ffmpegOk
    THEN [process_path |-> "none", left |-> 0,
          ret |-> <<"Error: ", "FFmpeg conversion failed">>]
    ELSE [process_path |-> "tmp_wav",
          left |-> IF recog.kind # "text" THEN 1 ELSE 0,
          ret |-> CASE recog.kind = "text" -> recog.text
                    [] recog.kind = "unknown" -> None
                    [] OTHER -> <<"Error: ">> \o recog.text]

\* ffmpeg writes tmp_wav when it succeeds; os.remove(tmp_wav) is reached only
\* after recognize_google returned a text, so `left` is the number of
\* converted files that stay on disk.
transcribe_audio(ffmpegOk, recog) ==
    LET process_path == IF ffmpegOk THEN "tmp_wav" ELSE "audio_file_path"
        tmp_wav_written == ffmpegOk
        tmp_wav_removed == recog.kind = "text"
    IN  [process_path |-> process_path,
         left |-> IF tmp_wav_written /\ ~tmp_wav_removed THEN 1 ELSE 0,
         ret |-> CASE recog.kind = "text" -> recog.text
                   [] recog.kind = "unknown" -> None
                   [] OTHER -> <<"Error: ">> \o recog.text]

\* Mutant: a failed call yields an empty feedback text.
analyze_with_gemini_EmptyOnError(answer_text, question_text, out) ==
    IF ~GEMINI_READY \/ out.kind = "raise" THEN <<>> ELSE out.text

\* `model` is not defined when the Gemini setup did not complete: the
\* NameError is caught like any failure of the call.
analyze_with_gemini(answer_text, question_text, out) ==
    IF ~GEMINI_READY
    THEN <<"Error getting feedback: ", "name 'model' is not defined">>
    ELSE IF out.kind = "raise"
         THEN <<"Error getting feedback: ">> \o out.text
         ELSE out.text

\* ------------------------------------------------- what the script renders
\* `if not st.session_state.setup_done`
SetupPage == ~setup_done

\* `if q_idx < len(questions)`
QuestionPage == setup_done /\ current_q < PyLen(questions)

\* `else` of the above: the completion page with the Start Over button
DonePage == setup_done /\ ~(current_q < PyLen(questions))

\* questions[q_idx] and q_data['text'] evaluate: otherwise the script stops
\* with an exception before any widget of the question page exists.
QuestionShown ==
    /\ QuestionPage
    /\ questions.kind = "array"
    /\ questions.items[current_q + 1].kind = "record"

q_data == questions.items[current_q + 1]

\* `if st.session_state.feedback`: feedback and the Next Question button
FeedbackShown == QuestionShown /\ Truthy(feedback)

\* `else`: the input area
InputShown == QuestionShown /\ ~Truthy(feedback)

\* The phase of the session, as the branches of Stage 6 and 7 decide it.
Phase ==
    IF SetupPage THEN "SETUP"
    ELSE IF QuestionPage
         THEN IF Truthy(feedback) THEN "REVIEWING" ELSE "ASKING"
         ELSE "DONE"

\* ----------------------------------------------------------------- Init
Init ==
    /\ GEMINI_READY \in BOOLEAN
    /\ questions = EmptyList
    /\ current_q = 0
    /\ feedback = None
    /\ setup_done = FALSE
    /\ mode = TextMode
    /\ name = ""
    /\ rerun = FALSE
    /\ tmp_files = 0
    /\ turns = 0
    /\ advances = 0
    /\ last = NoCalls("init", None)

\* ------------------------------------------------------------- handlers
\* Mutant: the Start Interview handler does not test the name.
StartInterview_NoNameCheck(n, role, difficulty, m, resp) ==
    /\ name' = n
    /\ IF ~GEMINI_READY
       THEN /\ UNCHANGED <<questions, current_q, feedback, setup_done, mode>>
            /\ last' = NoCalls("start", None)
       ELSE /\ questions' = generate_questions(role, difficulty, resp)
            /\ mode' = m
            /\ setup_done' = TRUE
            /\ UNCHANGED <<current_q, feedback>>
            /\ last' = MkLast("start", None, TRUE, resp, FALSE, None, None,
                              "none")

\* Setup page: the name input is copied into the session on every run, then
\* the Start Interview button is handled.
StartInterview(n, role, difficulty, m, resp) ==
    /\ name' = n
    /\ IF n = ""
       THEN /\ UNCHANGED <<questions, current_q, feedback, setup_done, mode>>
            /\ last' = NoCalls("start", None)
       ELSE IF ~GEMINI_READY
            THEN /\ UNCHANGED <<questions, current_q, feedback, setup_done, mode>>
                 /\ last' = NoCalls("start", None)
            ELSE /\ questions' = generate_questions(role, difficulty, resp)
                 /\ mode' = m
                 /\ setup_done' = TRUE
                 /\ UNCHANGED <<current_q, feedback>>
                 /\ last' = MkLast("start", None, TRUE, resp, FALSE, None, None,
                                   "none")

\* Mutant: the Submit handler tests `answer`, not `answer.strip()`.
SubmitAnswer_NoStrip(answer, out) ==
    IF answer # <<>>
    THEN LET fb == analyze_with_gemini(answer, q_data.text, out)
         IN  /\ feedback' = fb
             /\ UNCHANGED <<questions, current_q, setup_done, mode, name>>
             /\ last' = [MkLast("submit", answer, FALSE, NoResponse, TRUE,
                                answer, fb, "none")
                            EXCEPT !.evalOutcome = out.kind]
    ELSE /\ UNCHANGED session
         /\ last' = NoCalls("submit", answer)

\* Text mode: the Submit button.
SubmitAnswer(answer, out) ==
    IF strip(answer) # <<>>
    THEN LET fb == analyze_with_gemini(answer, q_data.text, out)
         IN  /\ feedback' = fb
             /\ UNCHANGED <<questions, current_q, setup_done, mode, name>>
             /\ last' = [MkLast("submit", answer, FALSE, NoResponse, TRUE,
                                answer, fb, "none")
                            EXCEPT !.evalOutcome = out.kind]
    ELSE /\ UNCHANGED session
         /\ last' = NoCalls("submit", answer)

\* Voice mode: the audio widget holds a recording.  After st.rerun() the
\* widget still holds it when the input area is rendered again.
\* The uploaded audio is written to a NamedTemporaryFile that os.remove
\* deletes right after transcribe_audio returns.
AudioHandler(cmd, ffmpegOk, recog, out) ==
    LET transcribed == transcribe_audio(ffmpegOk, recog)
        transcript == transcribed.ret
        ffmpeg == IF ffmpegOk THEN "ok" ELSE "failed"
        tmp_path_written == 1
        tmp_path_removed == 1
        fb == analyze_with_gemini(transcript, q_data.text, out)
    IN  /\ tmp_files + transcribed.left <= MaxTempFiles
        /\ tmp_files' = tmp_files + tmp_path_written - tmp_path_removed
                            + transcribed.left
        /\ IF Truthy(transcript)
           THEN /\ feedback' = fb
                /\ rerun' = ~Truthy(fb)
                /\ UNCHANGED <<questions, current_q, setup_done, mode, name>>
                /\ last' = [MkLast(cmd, None, FALSE, NoResponse, TRUE,
                                   transcript, fb, recog.kind)
                               EXCEPT !.evalOutcome = out.kind,
                                      !.ffmpeg = ffmpeg,
                                      !.process_path = transcribed.process_path,
                                      !.transcript = transcript,
                                      !.heard = recog.text]
           ELSE /\ rerun' = FALSE
                /\ UNCHANGED session
                /\ last' = [MkLast(cmd, None, FALSE, NoResponse, FALSE, None,
                                   None, recog.kind)
                               EXCEPT !.ffmpeg = ffmpeg,
                                      !.process_path = transcribed.process_path,
                                      !.transcript = transcript,
                                      !.heard = recog.text]

\* Mutant: Next Question does not clear the feedback.
NextQuestion_KeepsFeedback ==
    /\ current_q' = current_q + 1
    /\ UNCHANGED <<feedback, questions, setup_done, mode, name>>
    /\ last' = NoCalls("advance", None)

\* Mutant: Next Question skips a question.
NextQuestion_SkipsOne ==
    /\ feedback' = None
    /\ current_q' = current_q + 2
    /\ UNCHANGED <<questions, setup_done, mode, name>>
    /\ last' = NoCalls("advance", None)

\* Mutant: Next Question removes the answered question from the list.
NextQuestion_DropsQuestion ==
    /\ feedback' = None
    /\ questions' = [questions EXCEPT !.items = Tail(questions.items)]
    /\ UNCHANGED <<current_q, setup_done, mode, name>>
    /\ last' = NoCalls("advance", None)

\* The Next Question button.
NextQuestion ==
    /\ feedback' = None
    /\ current_q' = current_q + 1
    /\ UNCHANGED <<questions, setup_done, mode, name>>
    /\ last' = NoCalls("advance", None)

\* Mutant: Start Over resets setup_done and the questions only.
StartOver_KeepsIndex ==
    /\ questions' = EmptyList
    /\ setup_done' = FALSE
    /\ name' = ""
    /\ UNCHANGED <<current_q, feedback, mode>>
    /\ last' = NoCalls("reset", None)

\* The Start Over button: session_state.clear(), then the rerun executes
\* Stage 4 on the empty session state and the setup page reads the name
\* input, whose widget state was cleared with the rest.
StartOver ==
    /\ questions' = EmptyList
    /\ current_q' = 0
    /\ feedback' = None
    /\ setup_done' = FALSE
    /\ mode' = TextMode
    /\ name' = ""
    /\ last' = NoCalls("reset", None)

\* ------------------------------------------------------------- commands
Commands == {"start", "submit", "audio", "advance", "reset"}

\* Mutant: the setup page is rendered whatever setup_done is.
Rendered_SetupAlways(cmd) ==
    CASE cmd = "start" -> TRUE
      [] cmd = "submit" -> InputShown /\ ~IsVoice(mode)
      [] cmd = "audio" -> InputShown /\ IsVoice(mode)
      [] cmd = "advance" -> FeedbackShown
      [] cmd = "reset" -> DonePage

\* The widget that delivers the command exists in the current run.
Rendered(cmd) ==
    CASE cmd = "start" -> SetupPage
      [] cmd = "submit" -> InputShown /\ ~IsVoice(mode)
      [] cmd = "audio" -> InputShown /\ IsVoice(mode)
      [] cmd = "advance" -> FeedbackShown
      [] cmd = "reset" -> DonePage

Start(n, role, difficulty, m, resp) ==
    /\ ~rerun
    /\ Rendered("start")
    /\ StartInterview(n, role, difficulty, m, resp)
    /\ turns' = 0
    /\ advances' = 0
    /\ UNCHANGED <<GEMINI_READY, rerun, tmp_files>>

Submit(answer, out) ==
    /\ ~rerun
    /\ Rendered("submit")
    /\ SubmitAnswer(answer, out)
    /\ last'.evalCalled => turns < MaxTurns
    /\ turns' = IF last'.evalCalled THEN turns + 1 ELSE turns
    /\ UNCHANGED <<GEMINI_READY, rerun, tmp_files, advances>>

AudioReady(ffmpegOk, recog, out) ==
    /\ ~rerun
    /\ Rendered("audio")
    /\ AudioHandler("audio", ffmpegOk, recog, out)
    /\ last'.evalCalled => turns < MaxTurns
    /\ turns' = IF last'.evalCalled THEN turns + 1 ELSE turns
    /\ UNCHANGED <<GEMINI_READY, advances>>

\* The run that st.rerun() starts while the audio widget holds a recording.
AudioRerun(ffmpegOk, recog, out) ==
    /\ rerun
    /\ AudioHandler("rerun", ffmpegOk, recog, out)
    /\ UNCHANGED <<GEMINI_READY, turns, advances>>

Advance ==
    /\ ~rerun
    /\ Rendered("advance")
    /\ NextQuestion
    /\ advances' = advances + 1
    /\ UNCHANGED <<GEMINI_READY, rerun, tmp_files, turns>>

Reset ==
    /\ ~rerun
    /\ Rendered("reset")
    /\ StartOver
    /\ turns' = 0
    /\ advances' = 0
    /\ UNCHANGED <<GEMINI_READY, rerun, tmp_files>>

\* A command whose widget the script did not render: no handler runs.
NotRendered(cmd) ==
    /\ ~rerun
    /\ ~Rendered(cmd)
    /\ last' = [NoCalls(cmd, None) EXCEPT !.handled = FALSE]
    /\ UNCHANGED <<session, GEMINI_READY, rerun, tmp_files, turns, advances>>

Next ==
    \/ \E n \in Names, role \in Roles, difficulty \in Difficulties,
          m \in Modes, resp \in GenResponses :
            Start(n, role, difficulty, m, resp)
    \/ \E answer \in Answers, out \in EvalOutcomes : Submit(answer, out)
    \/ \E ffmpegOk \in BOOLEAN, recog \in RecogOutcomes, out \in EvalOutcomes :
            AudioReady(ffmpegOk, recog, out)
    \/ \E ffmpegOk \in BOOLEAN, recog \in RecogOutcomes, out \in EvalOutcomes :
            AudioRerun(ffmpegOk, recog, out)
    \/ Advance
    \/ Reset
    \/ \E cmd \in Commands : NotRendered(cmd)

Spec == Init /\ [][Next]_vars

\* ================================================================ claims
AudioCommands == {"audio", "rerun"}

\* C1 (as stated): in every reachable state currentIndex is a valid index
\* while the phase is ASKING or REVIEWING, pendingFeedback is non-empty
\* exactly in REVIEWING, and the phase is DONE exactly when
\* currentIndex = len(questions), the initial SETUP state included.
C1_Original ==
    /\ Phase \in {"ASKING", "REVIEWING"} =>
            (0 <= current_q /\ current_q < PyLen(questions))
    /\ Truthy(feedback) <=> Phase = "REVIEWING"
    /\ Phase = "DONE" <=> current_q = PyLen(questions)

\* C1 (amended): the same, with the third part holding once setup is done;
\* in SETUP currentIndex = len(questions) = 0 and the phase is not DONE.
C1_StateInvariant ==
    /\ Phase \in {"ASKING", "REVIEWING"} =>
            (0 <= current_q /\ current_q < PyLen(questions))
    /\ Truthy(feedback) <=> Phase = "REVIEWING"
    /\ setup_done => (Phase = "DONE" <=> current_q = PyLen(questions))
    /\ ~setup_done => (Phase = "SETUP" /\ current_q = 0 /\ PyLen(questions) = 0)

C1_Witness ==
    /\ Phase = "REVIEWING"
    /\ current_q >= 1
    /\ current_q = PyLen(questions) - 1

\* C2: a start with a non-empty name while the generation collaborator is
\* unavailable moves SETUP to ASKING with exactly the fallback question and
\* currentIndex 0.
C2_StartFallsBack ==
    [][(last'.cmd = "start" /\ Phase = "SETUP" /\ name' # "" /\ ~GEMINI_READY)
        => (Phase' = "ASKING" /\ questions' = Fallback /\ current_q' = 0)]_vars

\* C3: a start with an empty name is rejected: the phase stays SETUP, the
\* generator is not called, questions, currentIndex and pendingFeedback are
\* unchanged.
C3_EmptyNameRejected ==
    [][(last'.cmd = "start" /\ Phase = "SETUP" /\ name' = "")
        => (/\ Phase' = "SETUP"
            /\ ~last'.genCalled
            /\ UNCHANGED <<questions, current_q, feedback>>)]_vars

C3_Witness ==
    /\ GEMINI_READY
    /\ last.cmd = "start" /\ last.handled
    /\ name = ""
    /\ Phase = "SETUP"

\* C4: a submit of a non-blank answer in ASKING calls the evaluator and, for
\* every result, leaves the phase REVIEWING with pendingFeedback equal to
\* the result and currentIndex unchanged.
C4_SubmitReviews ==
    [][(last'.cmd = "submit" /\ last'.handled /\ Phase = "ASKING"
            /\ strip(last'.arg) # <<>>)
        => (/\ last'.evalCalled
            /\ Phase' = "REVIEWING"
            /\ feedback' = last'.evalResult
            /\ current_q' = current_q)]_vars

\* C5: a submit of an empty or whitespace-only answer leaves the phase
\* ASKING, calls no evaluator and changes none of currentIndex,
\* pendingFeedback and questions.
C5_BlankAnswerRejected ==
    [][(last'.cmd = "submit" /\ last'.handled /\ Phase = "ASKING"
            /\ strip(last'.arg) = <<>>)
        => (/\ Phase' = "ASKING"
            /\ ~last'.evalCalled
            /\ UNCHANGED <<current_q, feedback, questions>>)]_vars

C5_Witness ==
    /\ last.cmd = "submit" /\ last.handled
    /\ last.arg # <<>> /\ strip(last.arg) = <<>>
    /\ Phase = "ASKING"

\* C6: advance from REVIEWING clears pendingFeedback, adds exactly one to
\* currentIndex and leaves questions alone; the phase is then DONE when the
\* new currentIndex = len(questions) and ASKING otherwise.
C6_Advance ==
    [][(last'.cmd = "advance" /\ Phase = "REVIEWING")
        => (/\ last'.handled
            /\ feedback' = None
            /\ current_q' = current_q + 1
            /\ questions' = questions
            /\ Phase' = IF current_q' = PyLen(questions') THEN "DONE"
                        ELSE "ASKING")]_vars

C6_Witness ==
    /\ last.cmd = "advance" /\ last.handled
    /\ Phase = "DONE"
    /\ current_q >= 2

\* The session as Stage 4 initializes it.
InitialSession ==
    /\ questions = EmptyList
    /\ current_q = 0
    /\ feedback = None
    /\ setup_done = FALSE
    /\ name = ""
    /\ mode = TextMode

\* C7 (as stated): reset from any phase leaves the session equal by value to
\* the initial SETUP state.
C7_ResetFromAnyPhase ==
    [][last'.cmd = "reset" => InitialSession']_vars

\* C7 (amended): reset from DONE, the one phase that offers it, leaves the
\* session equal by value to the initial SETUP state; in any other phase
\* there is no reset to issue and the session stays as it is.
C7_ResetFromDone ==
    [][last'.cmd = "reset"
        => IF Phase = "DONE"
           THEN last'.handled /\ InitialSession'
           ELSE ~last'.handled /\ UNCHANGED session]_vars

C7_Witness ==
    /\ last.cmd = "reset" /\ last.handled
    /\ InitialSession

\* Every element of the array is an {id, text} record.
IsRecordArray(v) ==
    /\ v.kind = "array"
    /\ \A i \in 1..Len(v.items) : v.items[i].kind = "record"

\* C8: generate returns a non-empty sequence for every collaborator
\* response, and exactly the one-element fallback when the collaborator is
\* unavailable, raises, or returns what is not an array of {id, text}
\* records.
C8_GenerateFailsClosed ==
    (last.cmd = "start" /\ last.genCalled)
        => (/\ questions.kind = "array"
            /\ PyLen(questions) >= 1
            /\ (\/ ~GEMINI_READY
                \/ last.resp.kind = "raise"
                \/ ~last.resp.valid
                \/ ~IsRecordArray(last.resp.value)) => questions = Fallback)

\* C9: an audio command whose transcription is UNRECOGNIZED leaves the
\* session in ASKING unchanged, calls no evaluator, and the audio command
\* can be issued again.
C9_UnrecognizedNoChange ==
    [][(last'.cmd \in AudioCommands /\ last'.handled /\ last'.recog = "unknown")
        => (/\ Phase = "ASKING" /\ Phase' = "ASKING"
            /\ ~last'.evalCalled
            /\ UNCHANGED session
            /\ ~rerun' /\ Rendered("audio")')]_vars

C9_Witness ==
    /\ last.cmd = "audio" /\ last.handled
    /\ last.recog = "unknown"
    /\ Phase = "ASKING"

\* C10: the audio command hands the evaluator an answer only when the
\* transcription recognized non-empty text; a transcription Error is never
\* the evaluator's answer and never moves the phase to REVIEWING.
C10_ErrorNotForwarded ==
    [][(last'.cmd \in AudioCommands /\ last'.handled)
        => (/\ last'.evalCalled =>
                    (last'.recog = "text" /\ last'.evalAnswer # <<>>)
            /\ last'.recog = "error" =>
                    (~last'.evalCalled /\ Phase' # "REVIEWING"))]_vars

\* C11: every temporary file created for a transcription is deleted when
\* the audio command finishes, on every exit path, so no temporary file
\* remains after any number of voice turns.
C11_NoTempFileRemains == tmp_files = 0

\* C12: every external call is made at most once per user command: a run of
\* the script that no user command started (the run after st.rerun()) calls
\* neither the transcription nor the evaluator nor the generator, whatever
\* the evaluator returned.
C12_NoCallWithoutCommand ==
    [][last'.cmd = "rerun"
        => (/\ last'.recog = "none"
            /\ ~last'.evalCalled
            /\ ~last'.genCalled)]_vars

\* A session started with a list of NumQuestions question records.
FourQuestions ==
    setup_done /\ IsRecordArray(questions) /\ PyLen(questions) = NumQuestions

\* C13: with a 4-question list, each non-blank answer moves ASKING to
\* REVIEWING and each advance moves on, so currentIndex is the number of
\* advances, the phase is REVIEWING exactly between an answer and its
\* advance, and DONE is reached with the fourth answer/advance pair and not
\* before.
C13_Scenario ==
    FourQuestions
        => (/\ current_q = advances
            /\ Phase = "REVIEWING" <=> turns = advances + 1
            /\ Phase \in {"ASKING", "DONE"} => turns = advances
            /\ Phase = "DONE" <=> (turns = NumQuestions /\ advances = NumQuestions))

\* C14: a command that is not valid for the current phase (start outside
\* SETUP, submit or audio outside ASKING, advance outside REVIEWING, reset
\* outside DONE) runs no handler and leaves questions, currentIndex,
\* pendingFeedback and the phase unchanged.
C14_InvalidCommandNoOp ==
    [][(\/ last'.cmd = "start" /\ Phase # "SETUP"
        \/ last'.cmd \in {"submit", "audio"} /\ Phase # "ASKING"
        \/ last'.cmd = "advance" /\ Phase # "REVIEWING"
        \/ last'.cmd = "reset" /\ Phase # "DONE")
        => (/\ ~last'.handled
            /\ UNCHANGED <<questions, current_q, feedback>>
            /\ Phase' = Phase)]_vars

C14_Witness ==
    /\ last.cmd = "reset" /\ ~last.handled
    /\ Phase = "REVIEWING"
    /\ current_q >= 1

\* C15: when the evaluator's collaborator call fails, the answer still moves
\* ASKING to REVIEWING with pendingFeedback a non-empty formatted error
\* string; nothing is raised to the session and the evaluator is not called
\* again for the turn.
C15_EvaluatorFailure ==
    [][(last'.cmd \in {"submit", "audio", "rerun"} /\ last'.evalCalled
            /\ last'.evalOutcome = "raise")
        => (/\ Phase = "ASKING" /\ Phase' = "REVIEWING"
            /\ feedback' # <<>> /\ feedback' # None
            /\ Head(feedback') = "Error getting feedback: "
            /\ feedback' = last'.evalResult
            /\ current_q' = current_q
            /\ ~rerun')]_vars

C15_Witness ==
    /\ last.cmd = "submit" /\ last.evalCalled
    /\ last.evalOutcome = "raise"
    /\ Phase = "REVIEWING"

\* C16: every successful start, also one after a reset of an earlier
\* session, ends with currentIndex 0, pendingFeedback empty, the phase ASKING
\* and questions equal to the generator's result.
C16_StartResult ==
    [][(last'.cmd = "start" /\ last'.genCalled)
        => (/\ current_q' = 0
            /\ feedback' = None
            /\ Phase' = "ASKING"
            /\ \A role \in Roles, difficulty \in Difficulties :
                 questions' = generate_questions(role, difficulty, last'.resp))]_vars

\* C17: between a successful start and the next reset the question list,
\* the candidate name and the response mode are not modified: submit, audio
\* and advance leave all three unchanged.
C17_SessionDataImmutable ==
    [][(setup_done /\ setup_done') => UNCHANGED <<questions, name, mode>>]_vars

C17_Witness ==
    /\ last.cmd = "advance" /\ last.handled
    /\ Phase = "ASKING"
    /\ turns >= 2
    /\ IsVoice(mode)

\* C18: a converter failure does not end the transcription: the recognition
\* is attempted, on the raw input audio when ffmpeg failed and on the
\* converted audio when it succeeded, and what transcribe returns (text,
\* UNRECOGNIZED or Error) follows from the recognition alone.
C18_ConverterNotFatal ==
    [][(last'.cmd \in AudioCommands /\ last'.handled)
        => (/\ last'.recog \in {"text", "unknown", "error"}
            /\ last'.process_path = IF last'.ffmpeg = "ok" THEN "tmp_wav"
                                    ELSE "audio_file_path"
            /\ last'.transcript =
                 CASE last'.recog = "text" -> last'.heard
                   [] last'.recog = "unknown" -> None
                   [] OTHER -> <<"Error: ">> \o last'.heard)]_vars

C18_Witness ==
    /\ last.cmd = "audio" /\ last.handled
    /\ last.ffmpeg = "failed"
    /\ last.process_path = "audio_file_path"
    /\ last.recog = "text"
    /\ Phase = "REVIEWING"

\* C19: the generator returns either the one-element fallback or exactly
\* NumQuestions questions, so a started session has 1 or NumQuestions
\* questions.
C19_OneOrFour ==
    setup_done
        => (/\ PyLen(questions) \in {1, NumQuestions}
            /\ questions # Fallback => PyLen(questions) = NumQuestions)

\* C20: within a session currentIndex never decreases, changes only through
\* a handled advance and never exceeds len(questions); once the phase is
\* DONE only a reset changes the state.
C20_IndexMonotone ==
    [][/\ (setup_done /\ setup_done')
            => (/\ current_q' >= current_q
                /\ current_q' # current_q
                     => (last'.cmd = "advance" /\ last'.handled
                         /\ current_q' = current_q + 1)
                /\ current_q' <= PyLen(questions'))
       /\ (Phase = "DONE" /\ <<session, rerun, tmp_files>>' # <<session, rerun, tmp_files>>)
            => (last'.cmd = "reset" /\ last'.handled)]_vars

C20_Witness ==
    /\ Phase = "DONE"
    /\ current_q = PyLen(questions) /\ current_q >= 2
    /\ last.cmd = "advance" /\ ~last.handled

====
